---- MODULE Spec2Model ----
(***************************************************************************)
(* Suffix-array construction of src/src/suffix_array.rs as a state machine.*)
(*                                                                         *)
(* Representation.  Bytes are naturals 0..255.  Positions are the          *)
(* program's 0-based indices; TLA+ sequences are 1-based, so position i of *)
(* a slice is element i + 1 of the sequence.  A machine word is kept as a   *)
(* function from 2-bit slots to 0..3, slot 0 least significant: a u32 has  *)
(* 16 slots, a __m256i has 128.  Every shift of the program is by an even  *)
(* number of bits, so slot shifts are exact, and no value ever exceeds 32  *)
(* bits.                                                                   *)
(***************************************************************************)
EXTENDS Integers, Sequences, FiniteSets, TLC

(***************************************************************************)
(* Bounds of the model.                                                    *)
(***************************************************************************)
\* Longest text (the bytes before the context pad) drawn by Init.
MaxText == 2
\* Largest bucket_threads drawn by Init.
MaxThreads == 2
\* A counts table of at most this many buckets is kept entry for entry; a
\* larger one (k = 14) keeps the entries the run reads back.
DenseBuckets == 64

(***************************************************************************)
(* Program constants.                                                      *)
(***************************************************************************)
\* const L: usize = 128 - 4
L == 124
\* const L: usize = 32 inside simd_cmp_bytes
LBytes == 32
\* const L: usize = 16 inside simd_cmp
LSeeds == 16

\* b'A', b'C', b'G', b'T' and b'a' of the LUT.
bA == 65
bC == 67
bG == 71
bT == 84
ba == 97

RECURSIVE Pow4(_)
Pow4(n) == IF n = 0 THEN 1 ELSE 4 * Pow4(n - 1)

RECURSIVE Pow2(_)
Pow2(n) == IF n = 0 THEN 1 ELSE 2 * Pow2(n - 1)

SetMax(S) == CHOOSE x \in S : \A y \in S : y <= x
SetMin(S) == CHOOSE x \in S : \A y \in S : x <= y

\* The sequence <<F(lo), ..., F(hi)>>, built by halves.
RECURSIVE SeqRange(_, _, _)
SeqRange(F(_), lo, hi) ==
    IF lo > hi THEN <<>>
    ELSE IF lo = hi THEN <<F(lo)>>
    ELSE LET mid == (lo + hi) \div 2
         IN  SeqRange(F, lo, mid) \o SeqRange(F, mid + 1, hi)

\* The sequence <<F(1), ..., F(n)>>.
SeqOf(F(_), n) == SeqRange(F, 1, n)

(***************************************************************************)
(* static LUT: [u8; 128]: a table of 128 entries, zero except at the eight *)
(* letters.  The code reads it through a raw pointer, without a bounds     *)
(* check: an index of 128 or more is a read outside the table, whose value *)
(* is not defined (InLUT tells the two apart).                             *)
(***************************************************************************)
LUT ==
    [b \in 0..127 |->
        CASE b \in {65, 97}  -> 0
          [] b \in {67, 99}  -> 1
          [] b \in {71, 103} -> 2
          [] b \in {84, 116} -> 3
          [] OTHER           -> 0]

InLUT(b) == b \in DOMAIN LUT

(***************************************************************************)
(* RevPacked::new.  Byte i of the input goes to slot padded_len - i - 1 of *)
(* the buffer (data[slot / 4], bits 2 * (slot % 4)); slots 0..3 stay zero. *)
(***************************************************************************)
RevPacked_new(bytes) ==
    LET padded_len == Len(bytes) + 4
        len == (padded_len + 3) \div 4
        Code(p) == IF p >= 4 /\ p < padded_len
                   THEN LUT[bytes[(padded_len - 1 - p) + 1]]
                   ELSE 0
    IN  [data |-> [q \in 1..len |->
                     Code(4 * (q - 1)) + 4 * Code(4 * (q - 1) + 1)
                       + 16 * Code(4 * (q - 1) + 2) + 64 * Code(4 * (q - 1) + 3)],
         len |-> padded_len]

\* The 2-bit slot p of the packed buffer (bits 2 * (p % 4) of data[p / 4]).
Slot(data, p) == (data[(p \div 4) + 1] \div Pow4(p % 4)) % 4

\* u32 << (2 * s) and u32 >> (2 * s) on a 16-slot word.
Shl32(w, s) == [t \in 0..15 |-> IF t >= s THEN w[t - s] ELSE 0]
Shr32(w, s) == [t \in 0..15 |-> IF t + s <= 15 THEN w[t + s] ELSE 0]

\* The value of slots t..(upto - 1) of a word, slot t counting as units.
RECURSIVE WordValue(_, _, _)
WordValue(w, t, upto) ==
    IF t >= upto THEN 0 ELSE w[t] + 4 * WordValue(w, t + 1, upto)

(***************************************************************************)
(* RevPacked::load_k.  The right shift is by (16 - k) * 2 bits; a shift by *)
(* 32 (k = 0) is an overflow, and so is 16 - k for k > 16: a build with    *)
(* overflow checks panics (see ShiftOverflows), a build without them wraps *)
(* the difference and masks the shift amount to 5 bits.                    *)
(***************************************************************************)
ShiftOverflows(k) == k > 16 \/ (16 - k) * 2 >= 32

\* The reversed offset len - idx - 16 of load_k; below zero the subtraction
\* overflows.
LoadKOffset(self, idx) == self.len - idx - 16

\* The index i of the first of the four bytes data[i..i+4) that load_k reads.
LoadKFirst(self, idx) == (LoadKOffset(self, idx) + 3) \div 4

\* The four bytes data[i..i+4) lie inside the buffer.
LoadKInBounds(self, idx) ==
    /\ LoadKOffset(self, idx) + 3 >= 0
    /\ LoadKFirst(self, idx) + 4 <= Len(self.data)

load_k(self, idx, k) ==
    LET ridx == LoadKOffset(self, idx)
        i == LoadKFirst(self, idx)
        j == (ridx + 3) % 4
        val == [t \in 0..15 |-> Slot(self.data, 4 * i + t)]
    IN  Shr32(Shl32(val, 3 - j), (((16 - k) * 2) % 32) \div 2)

\* `kmer as usize` is a valid index of a counts table of 4^k entries.
InTable(kmer, k) == \A t \in 0..15 : t >= k => kmer[t] = 0
KmerIndex(kmer, k) == WordValue(kmer, 0, IF k > 16 THEN 16 ELSE k)

(***************************************************************************)
(* RevPacked::load_124.  val is the 256-bit load at data[i..i+32); each    *)
(* 64-bit lane (32 slots) is shifted left by 3 - j slots, the lanes        *)
(* permuted by 0b10_01_00_11 (lane q takes lane q - 1, lane 0 takes lane   *)
(* 3) are shifted right by 32 - (3 - j) slots, the two are or-ed and the   *)
(* lowest byte is masked off.                                              *)
(***************************************************************************)
Or2(x, y) == ((IF x % 2 = 1 \/ y % 2 = 1 THEN 1 ELSE 0)
               + (IF x \div 2 = 1 \/ y \div 2 = 1 THEN 2 ELSE 0))

\* The reversed offset len - idx - 128 of load_124, and the index i of the
\* first of the 32 bytes data[i..i+32) that it reads.
Load124Offset(self, idx) == self.len - idx - 128
Load124First(self, idx) == (Load124Offset(self, idx) + 3) \div 4

\* load_124 without the mask of the lowest byte.
load_124_unmasked(self, idx) ==
    LET ridx == Load124Offset(self, idx)
        i == Load124First(self, idx)
        j == (ridx + 3) % 4
        val == [u \in 0..127 |-> Slot(self.data, 4 * i + u)]
        left == 3 - j
        right == 32 - left
        hi == [u \in 0..127 |-> IF u % 32 >= left THEN val[u - left] ELSE 0]
        perm == [u \in 0..127 |-> val[(u + 96) % 128]]
        lo == [u \in 0..127 |-> IF (u % 32) + right <= 31 THEN perm[u + right] ELSE 0]
    IN  [u \in 0..127 |-> Or2(hi[u], lo[u])]

load_124(self, idx) ==
    LET ridx == Load124Offset(self, idx)
        i == Load124First(self, idx)
        j == (ridx + 3) % 4
        val == [u \in 0..127 |-> Slot(self.data, 4 * i + u)]
        left == 3 - j
        right == 32 - left
        hi == [u \in 0..127 |-> IF u % 32 >= left THEN val[u - left] ELSE 0]
        perm == [u \in 0..127 |-> val[(u + 96) % 128]]
        lo == [u \in 0..127 |-> IF (u % 32) + right <= 31 THEN perm[u + right] ELSE 0]
    IN  [u \in 0..127 |-> IF u < 4 THEN 0 ELSE Or2(hi[u], lo[u])]

\* simd_key_packed: the CTX windows of a position, 124 bases apart.
simd_key_packed(packed, a_idx, CTX) ==
    [c \in 1..CTX |-> load_124(packed, a_idx + L * (c - 1))]

\* Byte lane l (0..31) of a 256-bit vector.
ByteLane(v, l) == v[4 * l] + 4 * v[4 * l + 1] + 16 * v[4 * l + 2] + 64 * v[4 * l + 3]

\* cmp_pack with _mm256_min_epu8 in the place of _mm256_max_epu8.
cmp_pack_min(va, vb) ==
    LET neq_mask == {l \in 0..31 : ByteLane(va, l) # ByteLane(vb, l)}
    IN  IF neq_mask # {}
        THEN LET msb == SetMax(neq_mask)
             IN  IF ByteLane(va, msb) <= ByteLane(vb, msb) THEN "Greater" ELSE "Less"
        ELSE "Equal"

(***************************************************************************)
(* cmp_pack: the highest byte lane in which a and b differ decides; there  *)
(* max_epu8(a, b) = a means a >= b.                                        *)
(***************************************************************************)
cmp_pack(va, vb) ==
    LET neq_mask == {l \in 0..31 : ByteLane(va, l) # ByteLane(vb, l)}
    IN  IF neq_mask # {}
        THEN LET msb == SetMax(neq_mask)
             IN  IF ByteLane(va, msb) >= ByteLane(vb, msb) THEN "Greater" ELSE "Less"
        ELSE "Equal"

\* key_cmp_packed: the first window pair that is not Equal decides.
key_cmp_packed(kl, kr) ==
    LET diff == {c \in 1..Len(kl) : cmp_pack(kl[c], kr[c]) # "Equal"}
    IN  IF diff = {} THEN "Equal" ELSE cmp_pack(kl[SetMin(diff)], kr[SetMin(diff)])

\* usize::cmp
UsizeCmp(x, y) == IF x < y THEN "Less" ELSE IF x > y THEN "Greater" ELSE "Equal"

(***************************************************************************)
(* simd_cmp_packed: up to CTX windows, then the positions themselves.      *)
(***************************************************************************)
simd_cmp_packed(packed, a_idx, b_idx, CTX) ==
    LET c == key_cmp_packed(simd_key_packed(packed, a_idx, CTX),
                            simd_key_packed(packed, b_idx, CTX))
    IN  IF c # "Equal" THEN c ELSE UsizeCmp(a_idx + L * CTX, b_idx + L * CTX)

(***************************************************************************)
(* simd_cmp_bytes: up to CTX windows of 32 raw bytes; the lowest byte lane *)
(* in which the windows differ decides, compared as unsigned raw bytes;    *)
(* equal windows give Equal (no comparison of the positions).              *)
(***************************************************************************)
RECURSIVE simd_cmp_bytes_from(_, _, _, _)
simd_cmp_bytes_from(bytes, a_i, b_i, windows) ==
    IF windows = 0 THEN "Equal"
    ELSE LET va == [l \in 0..(LBytes - 1) |-> bytes[a_i + l + 1]]
             vb == [l \in 0..(LBytes - 1) |-> bytes[b_i + l + 1]]
             neq_mask == {l \in 0..(LBytes - 1) : va[l] # vb[l]}
         IN  IF neq_mask # {}
             THEN LET lsb == SetMin(neq_mask)
                  IN  IF va[lsb] >= vb[lsb] THEN "Greater" ELSE "Less"
             ELSE simd_cmp_bytes_from(bytes, a_i + LBytes, b_i + LBytes, windows - 1)

simd_cmp_bytes(bytes, a_idx, b_idx, CTX) == simd_cmp_bytes_from(bytes, a_idx, b_idx, CTX)

(***************************************************************************)
(* simd_cmp: the same over windows of 16 u16 seeds.                        *)
(***************************************************************************)
RECURSIVE simd_cmp_from(_, _, _, _)
simd_cmp_from(seeds, a_i, b_i, windows) ==
    IF windows = 0 THEN "Equal"
    ELSE LET va == [l \in 0..(LSeeds - 1) |-> seeds[a_i + l + 1]]
             vb == [l \in 0..(LSeeds - 1) |-> seeds[b_i + l + 1]]
             neq_mask == {l \in 0..(LSeeds - 1) : va[l] # vb[l]}
         IN  IF neq_mask # {}
             THEN LET lsb == SetMin(neq_mask)
                  IN  IF va[lsb] >= vb[lsb] THEN "Greater" ELSE "Less"
             ELSE simd_cmp_from(seeds, a_i + LSeeds, b_i + LSeeds, windows - 1)

simd_cmp(seeds, a_idx, b_idx, CTX) == simd_cmp_from(seeds, a_idx, b_idx, CTX)

(***************************************************************************)
(* The library sorts.  Cmp[u][v] is the comparator's answer for elements   *)
(* u and v of the slice.  A stable sort (slice::sort_by, rayon's           *)
(* par_sort_by) keeps elements that compare Equal in their order in the    *)
(* slice.  slice::sort_unstable_by is a function of the slice whose        *)
(* treatment of Equal elements is unspecified: any order of them can come  *)
(* out.  `ties` fixes it: ties[u] is the priority of element u of the      *)
(* slice among the elements Equal to it, the lower first; the priorities   *)
(* 1, 2, ..., m are those of a stable sort.                                *)
(***************************************************************************)
SortByRanks(slice, Cmp, ties) ==
    LET m == Len(slice)
        Row(u) == LET At(v) == Cmp[u][v] IN SeqOf(At, m)
        c == SeqOf(Row, m)
        Before(v, u) == \/ c[v][u] = "Less"
                        \/ /\ c[v][u] = "Equal"
                           /\ ties[v] < ties[u]
        RankOf(u) == 1 + Cardinality({v \in 1..m : Before(v, u)})
        rank == SeqOf(RankOf, m)
        At(r) == slice[CHOOSE u \in 1..m : rank[u] = r]
    IN  SeqOf(At, m)

sort_by(slice, Cmp) == SortByRanks(slice, Cmp, [u \in 1..Len(slice) |-> u])

sort_unstable_by(slice, Cmp, ties) == SortByRanks(slice, Cmp, ties)

(***************************************************************************)
(* The per-bucket sort of sort_packed: for CTX <= 4 the keys are computed  *)
(* once per element and the pairs sorted unstably by key alone; otherwise  *)
(* the slice is sorted in place with simd_cmp_packed.  ties[p + 1] is the  *)
(* priority of position p among the positions of equal key.                *)
(***************************************************************************)
SortPackedSlice(packed, slice, CTX, ties) ==
    IF CTX <= 4
    THEN LET keyed_slice == [u \in 1..Len(slice) |->
                               <<simd_key_packed(packed, slice[u], CTX), slice[u]>>]
             Cmp == [u \in 1..Len(slice) |-> [v \in 1..Len(slice) |->
                       key_cmp_packed(keyed_slice[u][1], keyed_slice[v][1])]]
             out == sort_unstable_by(keyed_slice, Cmp,
                                     [u \in 1..Len(slice) |-> ties[slice[u] + 1]])
         IN  [u \in 1..Len(slice) |-> out[u][2]]
    ELSE LET Cmp == [u \in 1..Len(slice) |-> [v \in 1..Len(slice) |->
                       simd_cmp_packed(packed, slice[u], slice[v], CTX)]]
         IN  sort_by(slice, Cmp)

(***************************************************************************)
(* sort_bytes: the identity array over [0, len - L * CTX), L the module's  *)
(* constant (124), stably sorted with simd_cmp_bytes.                      *)
(***************************************************************************)
sort_bytes(bytes, CTX) ==
    LET bytes_no_ctx_len == Len(bytes) - L * CTX
        ident == [u \in 1..bytes_no_ctx_len |-> u - 1]
        Cmp == [u \in 1..bytes_no_ctx_len |-> [v \in 1..bytes_no_ctx_len |->
                  simd_cmp_bytes(bytes, ident[u], ident[v], CTX)]]
    IN  sort_by(ident, Cmp)

(***************************************************************************)
(* The inputs drawn by Init.                                               *)
(***************************************************************************)
Rep(x, n) == [u \in 1..n |-> x]

\* Bytes a drawn text is made of: three bases and a lower-case letter.
TextBytes == {bA, bC, bT, ba}

Texts(n) == UNION {[1..m -> TextBytes] : m \in 0..n}

\* Fourteen T, then C G G: two suffixes that share thirteen bases.
LongText == Rep(bT, 14) \o <<bC, bG, bG>>

\* The inputs of tests::test_packed.
TestTexts == {<<bA, bC, bG, bT, bA, bC, bG, bT>>, <<bT, bT, bT, bT>>}

\* Bytes of the pad of an input that is too short.
ShortPad == 20

\* The context pad: all 'A', all 'C', twelve 'C', a 'T', then 'A', or 'A' with
\* a last 'T'; "short" is a pad of ShortPad bytes, less than one window.
Pad(kind, n) ==
    CASE kind = "A"     -> Rep(bA, n)
      [] kind = "AT"    -> Rep(bA, n - 1) \o <<bT>>
      [] kind = "C"     -> Rep(bC, n)
      [] kind = "CT"    -> Rep(bC, 12) \o <<bT>> \o Rep(bA, n - 13)
      [] kind = "short" -> Rep(bA, ShortPad)

SmallInputs ==
    [text : Texts(MaxText), pad : {"A"}, k : {0, 1, 2},
     threads : 1..MaxThreads, ctx : {1, 5}]

WideInputs ==
    [text : {<<bC, bC>>, LongText}, pad : {"A", "C", "CT"}, k : {14},
     threads : 1..MaxThreads, ctx : {1, 5}]

TestInputs ==
    [text : TestTexts, pad : {"A"}, k : {1, 2}, threads : {1}, ctx : {1, 2}]

\* Calls that violate a precondition: k > 16, or an input shorter than its pad.
InvalidInputs ==
    [text : {<<>>, <<bC, bT>>}, pad : {"A"}, k : {17}, threads : 1..MaxThreads,
     ctx : {1}]
      \cup [text : {<<bC, bT>>}, pad : {"short"}, k : {1}, threads : 1..MaxThreads,
            ctx : {1}]

\* Runs of 'A' whose windows are equal or differ in their last base only.
EdgeInputs ==
    [text : {Rep(bA, 2), Rep(bA, 3)}, pad : {"AT"}, k : {1}, threads : 1..MaxThreads,
     ctx : {1, 2}]

\* Texts with a byte that LUT has no entry for.
HighByteInputs ==
    [text : {<<200>>, <<bC, 255>>}, pad : {"A"}, k : {1}, threads : {1}, ctx : {1}]

PackedInputs ==
    SmallInputs \cup WideInputs \cup TestInputs \cup InvalidInputs \cup EdgeInputs
      \cup HighByteInputs

\* new::<CTX>(seeds, k): the seeds are the 2-bit codes of a text and its pad.
SeededInputs ==
    [text : Texts(MaxText) \cup TestTexts, pad : {"A"}, k : {2}, threads : {1},
     ctx : {1}]
      \cup [text : {<<bC, bT>>}, pad : {"A"}, k : {17}, threads : {1}, ctx : {1}]
      \cup [text : {<<bC, bT>>}, pad : {"short"}, k : {2}, threads : {1}, ctx : {1}]

VARIABLES
    entry,            \* "new_packed" or "new": the constructor under way
    bytes,            \* the input B (text and context pad)
    seeds,            \* the input S of new (<<>> under new_packed)
    k,                \* the radix width
    bucket_threads,   \* T
    ctx,              \* the const generic CTX
    overflow_checks,  \* the build panics on arithmetic overflow
    tie_order,        \* what sort_unstable_by does with Equal elements:
                      \* tie_order[p + 1] is the priority of position p
    packed,           \* RevPacked: [data, len]
    phase,            \* where the constructor is
    thread_counts,    \* thread_counts[t][kmer], t in 0..T-1
    pos,              \* pos[t]: the next i of worker t's loop
    sorted,           \* the output array
    pending,          \* bucket-sort tasks that have not run
    counts,           \* counts of sort (seeded path)
    seed_to_idx,      \* seed_to_idx of sort (seeded path)
    bytes_sorted,     \* the array new_bytes returned
    bytes_done,       \* new_bytes: "pending", "returned" or "panicked"
    writes            \* history: writes[u] lists the <<worker, position>> stores
                      \* of the scatter phase into slot u of sorted

vars == <<entry, bytes, seeds, k, bucket_threads, ctx, overflow_checks, tie_order,
          packed, phase, thread_counts, pos, sorted, pending, counts, seed_to_idx,
          bytes_sorted, bytes_done, writes>>

\* The arguments of the call and the build; what every step leaves alone.
args == <<entry, bytes, seeds, k, bucket_threads, ctx, overflow_checks, tie_order>>

inputs == <<args, packed>>

(***************************************************************************)
(* usize arithmetic wraps modulo 2^64 in a build without overflow checks.  *)
(* A usize that has wrapped is kept exactly, as its four 16-bit limbs,     *)
(* least significant first: <<l1, l2, l3, l4>> is the number               *)
(* l1 + 2^16 * l2 + 2^32 * l3 + 2^48 * l4.  The operators below are the    *)
(* wrapping subtraction, addition and multiplication, the division and the *)
(* comparison of the machine on such numbers.                              *)
(***************************************************************************)
LimbBase == Pow2(16)

\* The usize n, for 0 <= n < 2^31.
Wide(n) == <<n % LimbBase, (n \div LimbBase) % LimbBase, 0, 0>>

\* a - b modulo 2^64.
WideSub(a, b) ==
    LET d1 == a[1] - b[1]
        d2 == a[2] - b[2] - (IF d1 < 0 THEN 1 ELSE 0)
        d3 == a[3] - b[3] - (IF d2 < 0 THEN 1 ELSE 0)
        d4 == a[4] - b[4] - (IF d3 < 0 THEN 1 ELSE 0)
    IN  <<(d1 + LimbBase) % LimbBase, (d2 + LimbBase) % LimbBase,
          (d3 + LimbBase) % LimbBase, (d4 + LimbBase) % LimbBase>>

\* a + b modulo 2^64.
WideAdd(a, b) ==
    LET s1 == a[1] + b[1]
        s2 == a[2] + b[2] + s1 \div LimbBase
        s3 == a[3] + b[3] + s2 \div LimbBase
        s4 == a[4] + b[4] + s3 \div LimbBase
    IN  <<s1 % LimbBase, s2 % LimbBase, s3 % LimbBase, s4 % LimbBase>>

\* a * n modulo 2^64, for a small n.
WideMul(a, n) ==
    LET m1 == a[1] * n
        m2 == a[2] * n + m1 \div LimbBase
        m3 == a[3] * n + m2 \div LimbBase
        m4 == a[4] * n + m3 \div LimbBase
    IN  <<m1 % LimbBase, m2 % LimbBase, m3 % LimbBase, m4 % LimbBase>>

\* a / n rounded down, for a small n > 0.
WideDiv(a, n) ==
    LET c4 == a[4]
        c3 == (c4 % n) * LimbBase + a[3]
        c2 == (c3 % n) * LimbBase + a[2]
        c1 == (c2 % n) * LimbBase + a[1]
    IN  <<c1 \div n, c2 \div n, c3 \div n, c4 \div n>>

\* a < b as unsigned numbers.
WideLess(a, b) ==
    \E u \in 1..4 : a[u] < b[u] /\ \A v \in (u + 1)..4 : a[v] = b[v]

\* The number is below 2^30, and its value then.
WideFits(w) == w[3] = 0 /\ w[4] = 0 /\ w[2] < Pow2(14)
WideToInt(w) == w[1] + LimbBase * w[2]

\* The number is within 2^30 of a multiple of 2^64, and the integer of
\* least magnitude it is congruent to modulo 2^64 then.
WideNear(w) == WideFits(w) \/ WideFits(WideSub(Wide(0), w))
WideSigned(w) ==
    IF WideFits(w) THEN WideToInt(w) ELSE 0 - WideToInt(WideSub(Wide(0), w))

(***************************************************************************)
(* sort_packed, lines 39-41 and 55-60: the chunks of the T workers.  The   *)
(* subtraction of line 40 wraps when the input is shorter than L * CTX     *)
(* (a build with overflow checks panics there instead); len_no_ctx, the    *)
(* chunk bounds and the workers' positions are wide numbers in such a run  *)
(* and integers in every other.                                            *)
(***************************************************************************)
Wraps == Len(bytes) < L * ctx

len_no_ctx ==
    IF Wraps THEN WideSub(Wide(Len(bytes)), Wide(L * ctx))
    ELSE Len(bytes) - L * ctx
chunk_size ==
    IF Wraps THEN WideDiv(len_no_ctx, bucket_threads)
    ELSE len_no_ctx \div bucket_threads
ChunkStart(t) ==
    IF Wraps THEN WideMul(chunk_size, t) ELSE t * chunk_size
ChunkEnd(t) ==
    IF t >= bucket_threads - 1 THEN len_no_ctx
    ELSE IF Wraps THEN WideMul(chunk_size, t + 1) ELSE (t + 1) * chunk_size

\* i < end, the test of the loop `for i in start..end`.
IndexBefore(i, end) == IF Wraps THEN WideLess(i, end) ELSE i < end

Threads == 0..(bucket_threads - 1)

(***************************************************************************)
(* The indices of a counts table, 0..(1 << k_bits).  A table too large to  *)
(* keep holds the entries the run reads back: the k-mers of the valid      *)
(* positions and the entry before each (the start of a bucket is the end   *)
(* of the one before).  Every other entry is written by the prefix sum and *)
(* never read.                                                             *)
(***************************************************************************)
BucketRangeOf(p) ==
    IF k <= 15 /\ Pow4(k) <= DenseBuckets
    THEN 0..(Pow4(k) - 1)
    ELSE LET read == IF Wraps THEN {i \in 0..p.len : LoadKInBounds(p, i)}
                     ELSE 0..(len_no_ctx - 1)
             touched == {KmerIndex(load_k(p, i, k), k) : i \in read}
         IN  touched \cup {v - 1 : v \in touched \ {0}}

BucketRange == BucketRangeOf(packed)

RECURSIVE Ascending(_)
Ascending(S) ==
    IF S = {} THEN <<>> ELSE <<SetMin(S)>> \o Ascending(S \ {SetMin(S)})

(***************************************************************************)
(* Lines 74-90, the serial prefix sum: for each k-mer i in increasing      *)
(* order and each thread in increasing order, the count is replaced by the *)
(* running sum, which then grows by the count.  `order` lists the pairs    *)
(* <<i, thread_idx>> as the two loops visit them.                          *)
(***************************************************************************)
RECURSIVE PrefixLoop(_, _, _)
PrefixLoop(order, tc, sum) ==
    IF order = <<>> THEN tc
    ELSE LET i == Head(order)[1]
             thread_idx == Head(order)[2]
             curr == tc[thread_idx][i]
         IN  PrefixLoop(Tail(order), [tc EXCEPT ![thread_idx][i] = sum], sum + curr)

\* The two loops of the prefix sum nested the other way round: every k-mer
\* of thread 0, then every k-mer of thread 1, and so on.
RECURSIVE LoopOrderByThread(_, _)
LoopOrderByThread(is, nthreads) ==
    IF nthreads = 0 THEN <<>>
    ELSE LoopOrderByThread(is, nthreads - 1)
           \o [u \in 1..Len(is) |-> <<is[u], nthreads - 1>>]

\* The inner loop of the prefix sum run from the last thread to the first.
RECURSIVE LoopOrderLastThreadFirst(_, _)
LoopOrderLastThreadFirst(is, nthreads) ==
    IF is = <<>> THEN <<>>
    ELSE [t \in 1..nthreads |-> <<Head(is), nthreads - t>>]
           \o LoopOrderLastThreadFirst(Tail(is), nthreads)

RECURSIVE LoopOrder(_, _)
LoopOrder(is, nthreads) ==
    IF is = <<>> THEN <<>>
    ELSE [t \in 1..nthreads |-> <<Head(is), t - 1>>] \o LoopOrder(Tail(is), nthreads)

PrefixSum(tc) == PrefixLoop(LoopOrder(Ascending(BucketRange), bucket_threads), tc, 0)

(***************************************************************************)
(* The orders in which the unstable sort of line 167 can leave positions   *)
(* of equal key: every assignment of priorities that permutes the          *)
(* positions of one key (the same CTX windows of 124 codes) among          *)
(* themselves.  With CTX > 4 the sort is stable and its comparator never   *)
(* answers Equal.                                                          *)
(***************************************************************************)
KeepOrder(n) == [u \in 1..n |-> u]

SameKey(b, c, p, q) == \A m \in 1..(L * c) : LUT[b[p + m]] = LUT[b[q + m]]

RECURSIVE TieOrdersFrom(_, _)
TieOrdersFrom(classes, order) ==
    IF classes = {} THEN {order}
    ELSE LET class == CHOOSE x \in classes : TRUE
         IN  UNION {TieOrdersFrom(classes \ {class},
                                  [u \in DOMAIN order |->
                                     IF u - 1 \in class THEN f[u - 1] + 1 ELSE order[u]])
                      : f \in Permutations(class)}

TieOrders(b, c) ==
    LET n == Len(b) - L * c
    IN  IF c > 4 \/ n < 2 \/ \E u \in DOMAIN b : ~InLUT(b[u])
        THEN {KeepOrder(n)}
        ELSE LET classes == {{q \in 0..(n - 1) : SameKey(b, c, p, q)} : p \in 0..(n - 1)}
             IN  TieOrdersFrom({x \in classes : Cardinality(x) >= 2}, KeepOrder(n))

(***************************************************************************)
(* Init: new_packed has been called.  The build is drawn with the input:   *)
(* with and without overflow checks where the call overflows (k = 0,       *)
(* k > 16, a short input), with them otherwise.                            *)
(***************************************************************************)
InitPacked ==
    \E in \in PackedInputs :
        /\ entry = "new_packed"
        /\ bytes = in.text \o Pad(in.pad, L * in.ctx)
        /\ seeds = <<>>
        /\ k = in.k
        /\ bucket_threads = in.threads
        /\ ctx = in.ctx
        /\ overflow_checks \in (IF in.k = 0 \/ in.k > 16 \/ in.pad = "short"
                                THEN BOOLEAN ELSE {TRUE})
        /\ tie_order \in TieOrders(bytes, in.ctx)
        /\ packed = <<>>
        /\ phase = "entry"
        /\ thread_counts = <<>>
        /\ pos = <<>>
        /\ sorted = <<>>
        /\ pending = {}
        /\ counts = <<>>
        /\ seed_to_idx = <<>>
        /\ bytes_sorted = <<>>
        /\ bytes_done = "pending"
        /\ writes = <<>>

(***************************************************************************)
(* Lines 39-49, the entry of sort_packed: len_no_ctx (the subtraction      *)
(* panics in a build with overflow checks when the input is shorter than   *)
(* its pad, and wraps in a build without), the packing of the text and the *)
(* allocation of the zeroed thread_counts.  No line checks k.  The packing *)
(* (line 336) reads LUT at every byte of the input: a byte of 128 or more  *)
(* is a read outside the table, in every build.                            *)
(***************************************************************************)
Enter ==
    /\ entry = "new_packed"
    /\ phase = "entry"
    /\ IF overflow_checks /\ Len(bytes) < L * ctx
       THEN /\ phase' = "panicked"
            /\ UNCHANGED <<packed, thread_counts, pos>>
       ELSE IF \E u \in DOMAIN bytes : ~InLUT(bytes[u])
       THEN /\ phase' = "undefined"
            /\ UNCHANGED <<packed, thread_counts, pos>>
       ELSE /\ packed' = RevPacked_new(bytes)
            /\ thread_counts' = [t \in Threads |-> [i \in BucketRangeOf(packed') |-> 0]]
            /\ pos' = [t \in Threads |-> ChunkStart(t)]
            /\ phase' = "histogram"
    /\ UNCHANGED writes
    /\ UNCHANGED <<args, sorted, pending, counts, seed_to_idx, bytes_sorted, bytes_done>>

(***************************************************************************)
(* Lines 51-69: one iteration of histogram worker t.  load_k panics in a   *)
(* build with overflow checks when its offset or its shift overflows.  In  *)
(* a build without, the offset wraps: from the offsets -1, -2, -3 the sum  *)
(* idx + 3 wraps back to 2, 1, 0 and the four bytes read are data[0..4);   *)
(* from an offset of -4 or less the read is far outside the buffer.  In a  *)
(* run whose positions are wide numbers, a position within 2^30 of a       *)
(* multiple of 2^64 is read through the integer it is congruent to (the    *)
(* offset of load_k is taken modulo 2^64); from any other position the     *)
(* offset is 2^30 or more away from the buffer.  A                         *)
(* k-mer outside the table is an out-of-bounds access through a raw        *)
(* pointer.                                                                *)
(***************************************************************************)
Histogram(t) ==
    /\ entry = "new_packed"
    /\ phase = "histogram"
    /\ IndexBefore(pos[t], ChunkEnd(t))
    /\ LET far == Wraps /\ ~WideNear(pos[t])
           i == IF Wraps THEN WideSigned(pos[t]) ELSE pos[t]
           kmer == load_k(packed, i, k)
       IN  IF overflow_checks
              /\ (far \/ LoadKOffset(packed, i) < 0 \/ ShiftOverflows(k))
           THEN /\ phase' = "panicked"
                /\ UNCHANGED <<thread_counts, pos>>
           ELSE IF far \/ ~LoadKInBounds(packed, i)
           THEN /\ phase' = "undefined"
                /\ UNCHANGED <<thread_counts, pos>>
           ELSE IF ~InTable(kmer, k)
           THEN /\ phase' = "undefined"
                /\ UNCHANGED <<thread_counts, pos>>
           ELSE /\ thread_counts' =
                      [thread_counts EXCEPT ![t][KmerIndex(kmer, k)] = @ + 1]
                /\ pos' = [pos EXCEPT ![t] = IF Wraps THEN WideAdd(@, Wide(1))
                                                      ELSE @ + 1]
                /\ UNCHANGED phase
    /\ UNCHANGED writes
    /\ UNCHANGED <<inputs, sorted, pending, counts, seed_to_idx, bytes_sorted,
                   bytes_done>>

(***************************************************************************)
(* Lines 74-97: after every histogram worker has finished (rayon::scope    *)
(* returns), the serial prefix sum and the allocation of `sorted`.         *)
(***************************************************************************)
PrefixSumStep ==
    /\ entry = "new_packed"
    /\ phase = "histogram"
    /\ \A t \in Threads : pos[t] = ChunkEnd(t)
    /\ thread_counts' = PrefixSum(thread_counts)
    /\ sorted' = [u \in 1..len_no_ctx |-> 0]
    /\ writes' = [u \in 1..len_no_ctx |-> <<>>]
    /\ pos' = [t \in Threads |-> ChunkStart(t)]
    /\ phase' = "scatter"
    /\ UNCHANGED <<inputs, pending, counts, seed_to_idx, bytes_sorted, bytes_done>>

(***************************************************************************)
(* A scatter in which every worker advances the counts of worker 0 in the  *)
(* place of its own.                                                       *)
(***************************************************************************)
ScatterSharedCounts(t) ==
    /\ entry = "new_packed"
    /\ phase = "scatter"
    /\ pos[t] < ChunkEnd(t)
    /\ LET i == pos[t]
           kmer == KmerIndex(load_k(packed, i, k), k)
           idx == thread_counts[0][kmer]
       IN  IF idx + 1 \in DOMAIN sorted
           THEN /\ sorted' = [sorted EXCEPT ![idx + 1] = i]
                /\ writes' = [writes EXCEPT ![idx + 1] = Append(@, <<t, i>>)]
                /\ thread_counts' = [thread_counts EXCEPT ![0][kmer] = idx + 1]
                /\ pos' = [pos EXCEPT ![t] = i + 1]
                /\ UNCHANGED phase
           ELSE /\ phase' = "undefined"
                /\ UNCHANGED <<sorted, writes, thread_counts, pos>>
    /\ UNCHANGED <<inputs, pending, counts, seed_to_idx, bytes_sorted, bytes_done>>

(***************************************************************************)
(* A scatter whose workers never store the advanced count.                 *)
(***************************************************************************)
ScatterKeepCount(t) ==
    /\ entry = "new_packed"
    /\ phase = "scatter"
    /\ pos[t] < ChunkEnd(t)
    /\ LET i == pos[t]
           kmer == KmerIndex(load_k(packed, i, k), k)
           idx == thread_counts[t][kmer]
       IN  IF idx + 1 \in DOMAIN sorted
           THEN /\ sorted' = [sorted EXCEPT ![idx + 1] = i]
                /\ writes' = [writes EXCEPT ![idx + 1] = Append(@, <<t, i>>)]
                /\ pos' = [pos EXCEPT ![t] = i + 1]
                /\ UNCHANGED <<phase, thread_counts>>
           ELSE /\ phase' = "undefined"
                /\ UNCHANGED <<sorted, writes, thread_counts, pos>>
    /\ UNCHANGED <<inputs, pending, counts, seed_to_idx, bytes_sorted, bytes_done>>

(***************************************************************************)
(* Lines 99-120: one iteration of scatter worker t.                        *)
(***************************************************************************)
Scatter(t) ==
    /\ entry = "new_packed"
    /\ phase = "scatter"
    /\ pos[t] < ChunkEnd(t)
    /\ LET i == pos[t]
           kmer == KmerIndex(load_k(packed, i, k), k)
           idx == thread_counts[t][kmer]
       IN  IF idx + 1 \in DOMAIN sorted
           THEN /\ sorted' = [sorted EXCEPT ![idx + 1] = i]
                /\ writes' = [writes EXCEPT ![idx + 1] = Append(@, <<t, i>>)]
                /\ thread_counts' = [thread_counts EXCEPT ![t][kmer] = idx + 1]
                /\ pos' = [pos EXCEPT ![t] = i + 1]
                /\ UNCHANGED phase
           ELSE /\ phase' = "undefined"
                /\ UNCHANGED <<sorted, writes, thread_counts, pos>>
    /\ UNCHANGED <<inputs, pending, counts, seed_to_idx, bytes_sorted, bytes_done>>

(***************************************************************************)
(* Lines 126-139: the bucket of k-mer i in the last thread's counts.       *)
(***************************************************************************)
LastCounts == thread_counts[bucket_threads - 1]
BucketStart(i) == IF i = 0 THEN 0 ELSE LastCounts[i - 1]
BucketEnd(i) == LastCounts[i]

(***************************************************************************)
(* Bucket tasks that start while scatter workers are still running.        *)
(***************************************************************************)
StartSortUnjoined ==
    /\ entry = "new_packed"
    /\ phase = "scatter"
    /\ pending' = {i \in BucketRange :
                     /\ i = 0 \/ i - 1 \in BucketRange
                     /\ BucketEnd(i) - BucketStart(i) >= 2}
    /\ phase' = "sort"
    /\ UNCHANGED writes
    /\ UNCHANGED <<inputs, thread_counts, pos, sorted, counts, seed_to_idx,
                   bytes_sorted, bytes_done>>

(***************************************************************************)
(* Line 131: after every scatter worker has finished, the parallel         *)
(* iterator over the buckets starts.  A task whose slice has fewer than    *)
(* two elements returns without a write; only the others are scheduled.    *)
(***************************************************************************)
StartSort ==
    /\ entry = "new_packed"
    /\ phase = "scatter"
    /\ \A t \in Threads : pos[t] = ChunkEnd(t)
    /\ pending' = {i \in BucketRange :
                     /\ i = 0 \/ i - 1 \in BucketRange
                     /\ BucketEnd(i) - BucketStart(i) >= 2}
    /\ phase' = "sort"
    /\ UNCHANGED writes
    /\ UNCHANGED <<inputs, thread_counts, pos, sorted, counts, seed_to_idx,
                   bytes_sorted, bytes_done>>

(***************************************************************************)
(* Lines 131-176: the task of bucket i.                                    *)
(***************************************************************************)
SortBucket(i) ==
    /\ entry = "new_packed"
    /\ phase = "sort"
    /\ i \in pending
    /\ LET start == BucketStart(i)
           end == BucketEnd(i)
           slice == SubSeq(sorted, start + 1, end)
           out == SortPackedSlice(packed, slice, ctx, tie_order)
       IN  sorted' = [u \in 1..Len(sorted) |->
                        IF u > start /\ u <= end THEN out[u - start] ELSE sorted[u]]
    /\ pending' = pending \ {i}
    /\ UNCHANGED writes
    /\ UNCHANGED <<inputs, phase, thread_counts, pos, counts, seed_to_idx,
                   bytes_sorted, bytes_done>>

\* Line 182: every task has run; sort_packed returns `sorted`.
Return ==
    /\ phase \in {"sort", "seed_sort"}
    /\ pending = {}
    /\ phase' = "done"
    /\ UNCHANGED writes
    /\ UNCHANGED <<inputs, thread_counts, pos, sorted, pending, counts, seed_to_idx,
                   bytes_sorted, bytes_done>>

Terminated == phase \in {"done", "panicked", "undefined"}

(***************************************************************************)
(* new_bytes on the same input, called once the other constructor has      *)
(* ended.  Line 197 panics in every build when the input is shorter than   *)
(* its pad: on the subtraction, or on the slice end it wraps to.           *)
(***************************************************************************)
NewBytes ==
    /\ Terminated
    /\ bytes_done = "pending"
    /\ IF Len(bytes) < L * ctx
       THEN /\ bytes_done' = "panicked"
            /\ UNCHANGED bytes_sorted
       ELSE /\ bytes_sorted' = sort_bytes(bytes, ctx)
            /\ bytes_done' = "returned"
    /\ UNCHANGED writes
    /\ UNCHANGED <<inputs, phase, thread_counts, pos, sorted, pending, counts,
                   seed_to_idx>>

(***************************************************************************)
(* new::<CTX>(seeds, k), the pre-seeded path.                              *)
(***************************************************************************)
seeds_no_ctx_len == Len(seeds) - L * ctx

InitSeeded ==
    \E in \in SeededInputs :
        /\ entry = "new"
        /\ bytes = in.text \o Pad(in.pad, L * in.ctx)
        /\ seeds = [u \in 1..Len(bytes) |-> LUT[bytes[u]]]
        /\ k = in.k
        /\ bucket_threads = in.threads
        /\ ctx = in.ctx
        /\ overflow_checks = TRUE
        /\ tie_order = KeepOrder(Len(bytes) - L * in.ctx)
        /\ packed = <<>>
        /\ phase = "seed_count"
        /\ thread_counts = <<>>
        /\ pos = [t \in {0} |-> 0]
        /\ sorted = <<>>
        /\ pending = {}
        /\ counts = <<>>
        /\ seed_to_idx = <<>>
        /\ bytes_sorted = <<>>
        /\ bytes_done = "pending"
        /\ writes = <<>>

\* Lines 226-229: the histogram of the seeds before the pad.
RECURSIVE CountSeeds(_, _, _)
CountSeeds(ss, upto, cs) ==
    IF upto = 0 THEN cs
    ELSE LET done == CountSeeds(ss, upto - 1, cs)
         IN  [done EXCEPT ![ss[upto]] = @ + 1]

\* Lines 231-241: seed_to_idx[i] is the sum of the counts of the seeds below i.
RECURSIVE SeedToIdx(_, _)
SeedToIdx(cs, idx) ==
    IF idx = 0 THEN 0 ELSE SeedToIdx(cs, idx - 1) + cs[idx - 1]

(***************************************************************************)
(* Lines 213 and 222-243: the assertion of new and the slice of line 222,  *)
(* which panics in every build when the seeds are shorter than their pad   *)
(* (on the subtraction, or on the slice index it wraps to); then the       *)
(* histogram, the table of bucket starts and the allocation of `sorted`.   *)
(***************************************************************************)
SeedCount ==
    /\ entry = "new"
    /\ phase = "seed_count"
    /\ IF k > 16 \/ Len(seeds) < L * ctx
       THEN /\ phase' = "panicked"
            /\ UNCHANGED <<counts, seed_to_idx, sorted>>
       ELSE /\ counts' = CountSeeds(seeds, seeds_no_ctx_len,
                                    [s \in 0..(Pow2(k) - 1) |-> 0])
            /\ seed_to_idx' = [i \in 0..Pow2(k) |-> SeedToIdx(counts', i)]
            /\ sorted' = [u \in 1..seeds_no_ctx_len |-> 0]
            /\ phase' = "seed_scatter"
    /\ UNCHANGED writes
    /\ UNCHANGED <<inputs, thread_counts, pos, pending, bytes_sorted, bytes_done>>

\* A scatter loop that fills every bucket from its highest slot down.
SeedScatterDescending ==
    /\ entry = "new"
    /\ phase = "seed_scatter"
    /\ pos[0] < seeds_no_ctx_len
    /\ LET i == pos[0]
           s == seeds[i + 1]
           start == seed_to_idx[s]
           count == counts[s]
       IN  /\ sorted' = [sorted EXCEPT ![(start + count - 1) + 1] = i]
           /\ counts' = [counts EXCEPT ![s] = count - 1]
           /\ pos' = [pos EXCEPT ![0] = i + 1]
    /\ UNCHANGED writes
    /\ UNCHANGED <<inputs, phase, thread_counts, pending, seed_to_idx, bytes_sorted,
                   bytes_done>>

\* The scatter loop without `count -= 1`.
SeedScatterNoDecrement ==
    /\ entry = "new"
    /\ phase = "seed_scatter"
    /\ pos[0] < seeds_no_ctx_len
    /\ LET i == pos[0]
           s == seeds[i + 1]
           end == seed_to_idx[s + 1]
           count == counts[s]
       IN  /\ sorted' = [sorted EXCEPT ![(end - count) + 1] = i]
           /\ counts' = counts
           /\ pos' = [pos EXCEPT ![0] = i + 1]
    /\ UNCHANGED writes
    /\ UNCHANGED <<inputs, phase, thread_counts, pending, seed_to_idx, bytes_sorted,
                   bytes_done>>

\* Lines 245-251: one iteration of the scatter loop.
SeedScatter ==
    /\ entry = "new"
    /\ phase = "seed_scatter"
    /\ pos[0] < seeds_no_ctx_len
    /\ LET i == pos[0]
           s == seeds[i + 1]
           end == seed_to_idx[s + 1]
           count == counts[s]
       IN  /\ sorted' = [sorted EXCEPT ![(end - count) + 1] = i]
           /\ counts' = [counts EXCEPT ![s] = count - 1]
           /\ pos' = [pos EXCEPT ![0] = i + 1]
    /\ UNCHANGED writes
    /\ UNCHANGED <<inputs, phase, thread_counts, pending, seed_to_idx, bytes_sorted,
                   bytes_done>>

\* Lines 253-257: counts is dropped and the parallel iterator starts.
SeedStartSort ==
    /\ entry = "new"
    /\ phase = "seed_scatter"
    /\ pos[0] = seeds_no_ctx_len
    /\ counts' = <<>>
    /\ pending' = {i \in 0..(Pow2(k) - 1) : seed_to_idx[i + 1] - seed_to_idx[i] >= 2}
    /\ phase' = "seed_sort"
    /\ UNCHANGED writes
    /\ UNCHANGED <<inputs, thread_counts, pos, sorted, seed_to_idx, bytes_sorted,
                   bytes_done>>

\* Lines 257-265: the task of bucket i, a stable sort with simd_cmp from a_idx + 1.
SeedSortBucket(i) ==
    /\ entry = "new"
    /\ phase = "seed_sort"
    /\ i \in pending
    /\ LET start == seed_to_idx[i]
           end == seed_to_idx[i + 1]
           slice == SubSeq(sorted, start + 1, end)
           Cmp == [u \in 1..Len(slice) |-> [v \in 1..Len(slice) |->
                     simd_cmp(seeds, slice[u] + 1, slice[v] + 1, ctx)]]
           out == sort_by(slice, Cmp)
       IN  sorted' = [u \in 1..Len(sorted) |->
                        IF u > start /\ u <= end THEN out[u - start] ELSE sorted[u]]
    /\ pending' = pending \ {i}
    /\ UNCHANGED writes
    /\ UNCHANGED <<inputs, phase, thread_counts, pos, counts, seed_to_idx,
                   bytes_sorted, bytes_done>>

Init == InitPacked \/ InitSeeded

Next ==
    \/ Enter
    \/ \E t \in Threads : Histogram(t)
    \/ PrefixSumStep
    \/ \E t \in Threads : Scatter(t)
    \/ StartSort
    \/ \E i \in pending : SortBucket(i)
    \/ Return
    \/ NewBytes
    \/ SeedCount
    \/ SeedScatter
    \/ SeedStartSort
    \/ \E i \in pending : SeedSortBucket(i)

Spec == Init /\ [][Next]_vars

(***************************************************************************)
(* Vocabulary of the properties.                                           *)
(***************************************************************************)
\* s lists every position of [0, n) exactly once.
IsPermutation(s, n) ==
    /\ Len(s) = n
    /\ \A p \in 0..(n - 1) : Cardinality({u \in 1..n : s[u] = p}) = 1

\* The place of position p in the array s.
IndexOf(s, p) == CHOOSE u \in 1..Len(s) : s[u] = p

\* The 2-bit code of a byte: its entry of the table, 0 for a byte the table
\* has no entry for.
CodeOf(b) == IF InLUT(b) THEN LUT[b] ELSE 0

\* Lexicographic comparison of the first w codes from positions p and q.
EncodedCmp(p, q, w) ==
    LET d == {m \in 1..w : CodeOf(bytes[p + m]) # CodeOf(bytes[q + m])}
    IN  IF d = {} THEN "Equal"
        ELSE IF CodeOf(bytes[p + SetMin(d)]) < CodeOf(bytes[q + SetMin(d)])
        THEN "Less" ELSE "Greater"

\* The same over the whole comparison window of the packed path.
WindowCmp(p, q) == EncodedCmp(p, q, L * ctx)

ValidStarts == 0..(len_no_ctx - 1)

\* Every two valid suffix starts differ within their first w encoded bases.
DistinctWithin(w) ==
    \A p, q \in ValidStarts : p # q => EncodedCmp(p, q, w) # "Equal"

\* The valid suffix starts in the order of WindowCmp, equal windows by position.
WindowOrder ==
    LET Before(p, q) == \/ WindowCmp(p, q) = "Less"
                        \/ WindowCmp(p, q) = "Equal" /\ p < q
    IN  [r \in 1..len_no_ctx |->
           CHOOSE p \in ValidStarts :
               Cardinality({q \in ValidStarts : Before(q, p)}) = r - 1]

\* Plain comparison of the raw byte suffixes bytes[p..N) and bytes[q..N), p # q.
SuffixLess(p, q) ==
    LET N == Len(bytes)
        shorter == IF p > q THEN N - p ELSE N - q
        d == {m \in 1..shorter : bytes[p + m] # bytes[q + m]}
    IN  IF d = {} THEN p > q ELSE bytes[p + SetMin(d)] < bytes[q + SetMin(d)]

\* The naive suffix array of the valid positions.
NaiveSuffixArray ==
    [r \in 1..len_no_ctx |->
       CHOOSE p \in ValidStarts :
           Cardinality({q \in ValidStarts : q # p /\ SuffixLess(q, p)}) = r - 1]

PackedDone == entry = "new_packed" /\ phase = "done"

\* The k-mer of a valid position as load_k returns it.
KmerOf(p) == KmerIndex(load_k(packed, p, k), k)

\* The k-mers of the positions 0..(n - 1), as a sequence.
RECURSIVE KmerSeq(_)
KmerSeq(n) == IF n = 0 THEN <<>> ELSE Append(KmerSeq(n - 1), KmerOf(n - 1))

\* The worker whose chunk holds position p when there are nthreads workers.
OwnerOf(p, nthreads) ==
    LET cs == len_no_ctx \div nthreads
    IN  IF cs = 0 \/ p \div cs >= nthreads THEN nthreads - 1 ELSE p \div cs

(***************************************************************************)
(* The slot of `sorted` that each position is scattered to with nthreads   *)
(* workers: after the positions of smaller k-mer, after those of the same  *)
(* k-mer owned by earlier workers, and after those of the same k-mer that  *)
(* come earlier in the same chunk.  Element p + 1 is the slot of p.        *)
(***************************************************************************)
SlotsOf(nthreads) ==
    LET km == KmerSeq(len_no_ctx)
        SlotOf(u) ==
            Cardinality({q \in ValidStarts :
                           \/ km[q + 1] < km[u]
                           \/ /\ km[q + 1] = km[u]
                              /\ OwnerOf(q, nthreads) < OwnerOf(u - 1, nthreads)
                           \/ /\ km[q + 1] = km[u]
                              /\ OwnerOf(q, nthreads) = OwnerOf(u - 1, nthreads)
                              /\ q < u - 1})
    IN  SeqOf(SlotOf, len_no_ctx)

\* `sorted` after a scatter with nthreads workers.
Scattered(nthreads) ==
    LET slot == SlotsOf(nthreads)
        At(u) == CHOOSE p \in ValidStarts : slot[p + 1] = u - 1
    IN  SeqOf(At, len_no_ctx)

\* Every bucket of the scattered array s sorted as sort_packed sorts it.
BucketsSorted(s) ==
    LET n == Len(s)
        kms == KmerSeq(len_no_ctx)
        KmAt(u) == kms[s[u] + 1]
        km == SeqOf(KmAt, n)
        FirstOf(u) == SetMin({v \in 1..n : km[v] = km[u]})
        first == SeqOf(FirstOf, n)
        SizeOf(u) == Cardinality({v \in 1..n : km[v] = km[u]})
        OutOf(f) == IF first[f] # f THEN <<>>
                    ELSE IF SizeOf(f) < 2 THEN <<s[f]>>
                    ELSE SortPackedSlice(packed, SubSeq(s, f, f + SizeOf(f) - 1), ctx,
                                         tie_order)
        out == SeqOf(OutOf, n)
        At(u) == out[first[u]][u - first[u] + 1]
    IN  SeqOf(At, n)

\* The array new_packed returns with nthreads workers run one after the other.
PackedResult(nthreads) == BucketsSorted(Scattered(nthreads))

(***************************************************************************)
(* C1.  For every input of length N >= 124 * CTX, every k in 0..16 and     *)
(* every T >= 1, new_packed returns an array                               *)
(* of length N - 124 * CTX that holds every position of [0, N - 124 * CTX) *)
(* exactly once: the call ends with an array, and the array is a           *)
(* permutation.                                                            *)
(***************************************************************************)
C1_PermutationForEveryK ==
    (entry = "new_packed" /\ Len(bytes) >= L * ctx /\ k <= 16) =>
        /\ phase \notin {"panicked", "undefined"}
        /\ phase = "done" => IsPermutation(sorted, Len(bytes) - L * ctx)

(***************************************************************************)
(* C2.  In the array new_packed returns, no adjacent pair (p, q) has the   *)
(* encoded window of p greater than the encoded window of q.               *)
(***************************************************************************)
C2_AdjacentWindowsOrdered ==
    PackedDone =>
        \A x \in 1..(Len(sorted) - 1) : WindowCmp(sorted[x], sorted[x + 1]) # "Greater"

(***************************************************************************)
(* C3.  Two valid positions p < q with equal encoded windows come out p    *)
(* before q, under the cached-key strategy and under the comparator        *)
(* strategy.  Stated for a run whose unstable sort leaves Equal elements   *)
(* in slice order, the most the cached-key strategy can rely on.           *)
(***************************************************************************)
C3_EqualWindowsByPosition ==
    (PackedDone /\ tie_order = KeepOrder(len_no_ctx)) =>
        \A p, q \in ValidStarts :
            (p < q /\ WindowCmp(p, q) = "Equal") => IndexOf(sorted, p) < IndexOf(sorted, q)

(***************************************************************************)
(* C4.  The array new_packed returns does not depend on bucket_threads: it *)
(* is the array the same input gives with a single worker.                 *)
(***************************************************************************)
C4_ThreadCountIndependent ==
    PackedDone => sorted = PackedResult(1)

C4_Witness ==
    /\ PackedDone
    /\ bucket_threads >= 2
    /\ \E p, q \in ValidStarts :
           /\ OwnerOf(p, bucket_threads) # OwnerOf(q, bucket_threads)
           /\ KmerOf(p) = KmerOf(q)

(***************************************************************************)
(* C5.  When every two valid suffix starts have different encoded windows, *)
(* the array new_packed returns does not depend on k: it is the order of   *)
(* the windows, whatever the radix width.                                  *)
(***************************************************************************)
C5_RadixWidthIndependent ==
    (PackedDone /\ DistinctWithin(L * ctx)) => sorted = WindowOrder

(***************************************************************************)
(* C6.  The array is the same under every interleaving of the workers and  *)
(* of the bucket tasks: a scattered position sits in the slot given by its *)
(* (thread, k-mer, rank) tuple, a bucket holds its scattered positions     *)
(* until its task runs and its sorted positions afterwards, and the array  *)
(* returned is the one the workers produce when run one after the other.   *)
(***************************************************************************)
C6_ScheduleIndependent ==
    entry = "new_packed" =>
        /\ phase = "scatter" =>
               LET slot == SlotsOf(bucket_threads)
               IN  \A p \in ValidStarts :
                       LET t == OwnerOf(p, bucket_threads)
                       IN  (ChunkStart(t) <= p /\ p < pos[t]) => sorted[slot[p + 1] + 1] = p
        /\ phase = "sort" =>
               LET before == Scattered(bucket_threads)
                   after == BucketsSorted(before)
                   km == KmerSeq(len_no_ctx)
               IN  \A u \in 1..len_no_ctx :
                       sorted[u] = IF km[before[u] + 1] \in pending
                                   THEN before[u] ELSE after[u]
        /\ phase = "done" => sorted = PackedResult(bucket_threads)

C6_Witness ==
    /\ entry = "new_packed"
    /\ phase = "scatter"
    /\ bucket_threads >= 2
    /\ ChunkStart(0) < ChunkEnd(0)
    /\ pos[0] = ChunkStart(0)
    /\ ChunkStart(bucket_threads - 1) < ChunkEnd(bucket_threads - 1)
    /\ pos[bucket_threads - 1] = ChunkEnd(bucket_threads - 1)

(***************************************************************************)
(* C7.  On an input whose valid suffixes pairwise differ within the        *)
(* comparison window, new_packed and new_bytes return the same array.      *)
(* Stated for inputs over the upper-case letters, whose byte order is the  *)
(* order of their codes, and for the shorter window, the 32 * CTX bytes of *)
(* the byte path, which lie inside the 124 * CTX bases of the packed path. *)
(***************************************************************************)
C7_PackedEqualsBytes ==
    (/\ PackedDone
     /\ bytes_done = "returned"
     /\ \A u \in 1..Len(bytes) : bytes[u] \in {bA, bC, bG, bT}
     /\ DistinctWithin(LBytes * ctx)) => sorted = bytes_sorted

(***************************************************************************)
(* C8.  For a text over {A, C, G, T} followed by a pad of 'A', new_packed  *)
(* returns the naive suffix array of the text positions.  Stated for texts *)
(* whose windows are pairwise different, where the bounded comparison      *)
(* decides every pair as the comparison of the whole suffixes does.        *)
(***************************************************************************)
C8_EqualsNaiveSuffixArray ==
    (/\ PackedDone
     /\ \A u \in 1..Len(bytes) : bytes[u] \in {bA, bC, bG, bT}
     /\ \A u \in (len_no_ctx + 1)..Len(bytes) : bytes[u] = bA
     /\ DistinctWithin(L * ctx)) => sorted = NaiveSuffixArray

(***************************************************************************)
(* C9.  For "TTTT" followed by 124 'A', new_packed::<1> with k = 2 and     *)
(* T = 1 returns [3, 2, 1, 0].                                             *)
(***************************************************************************)
C9_Input ==
    /\ entry = "new_packed"
    /\ bytes = <<bT, bT, bT, bT>> \o Rep(bA, L)
    /\ k = 2
    /\ bucket_threads = 1
    /\ ctx = 1

C9_TTTT ==
    (C9_Input /\ phase = "done") => sorted = <<3, 2, 1, 0>>

C9_Witness ==
    C9_Input /\ phase = "done"

(***************************************************************************)
(* C10 as claimed.  new_bytes returns a permutation of [0, N - 32 * CTX)   *)
(* and new a permutation of [0, N - 16 * CTX).                             *)
(***************************************************************************)
C10_OwnWindowLengths ==
    /\ bytes_done = "returned" => IsPermutation(bytes_sorted, Len(bytes) - LBytes * ctx)
    /\ (entry = "new" /\ phase = "done") =>
           IsPermutation(sorted, Len(seeds) - LSeeds * ctx)

(***************************************************************************)
(* C10 as amended.  new_bytes and new each return a permutation of         *)
(* [0, N - 124 * CTX): both cut the input with the module's L = 124, the   *)
(* window length of the packed path.                                       *)
(***************************************************************************)
C10_SharedWindowLength ==
    /\ bytes_done = "returned" => IsPermutation(bytes_sorted, Len(bytes) - L * ctx)
    /\ (entry = "new" /\ phase = "done") => IsPermutation(sorted, Len(seeds) - L * ctx)

C10_Witness ==
    /\ entry = "new"
    /\ phase = "done"
    /\ bytes_done = "returned"
    /\ Len(sorted) >= 2
    /\ Len(bytes_sorted) >= 2

(***************************************************************************)
(* C11.  A call with a violated precondition (new_packed or new with       *)
(* k > 16, new_packed with an input shorter than 124 * CTX bytes) fails    *)
(* fast: it never returns an array, and it aborts before any histogram     *)
(* count is written.                                                       *)
(***************************************************************************)
PreconditionViolated ==
    k > 16 \/ (entry = "new_packed" /\ Len(bytes) < L * ctx)

C11_FailFast ==
    PreconditionViolated =>
        /\ phase \in {"entry", "seed_count", "histogram", "panicked"}
        /\ phase = "histogram" =>
               \A t \in Threads : \A i \in DOMAIN thread_counts[t] :
                   thread_counts[t][i] = 0

(***************************************************************************)
(* C12.  For every valid suffix start idx and every k <= 16, load_k(idx,   *)
(* k) returns the k-mer of B[idx .. idx + k): symbol m of the k-mer is the *)
(* code of B[idx + m], B[idx] most significant, and nothing is set above   *)
(* the k symbols.  Read on the packed text, while the histogram workers    *)
(* call load_k on it, and stated for k >= 1, where no shift overflows.     *)
(***************************************************************************)
ExpectedKmer(idx, kk) ==
    [t \in 0..15 |-> IF t < kk THEN CodeOf(bytes[idx + (kk - 1 - t) + 1]) ELSE 0]

C12_LoadKExact ==
    (/\ entry = "new_packed"
     /\ phase = "histogram"
     /\ Len(bytes) >= L * ctx
     /\ k >= 1
     /\ k <= 16) =>
        \A idx \in ValidStarts : load_k(packed, idx, k) = ExpectedKmer(idx, k)

(***************************************************************************)
(* C13.  For every two positions a, b at which a 124-base window can be    *)
(* read, cmp_pack(load_124(a), load_124(b)) is the lexicographic           *)
(* comparison of the encoded windows B[a .. a + 124) and B[b .. b + 124),  *)
(* whatever the alignment of a and b; the bases after the window (the      *)
(* guard byte) have no part in it.  Read when every bucket task has run,   *)
(* over the pairs that a comparator can be given: window c of a valid      *)
(* start or of the first pad position against window c of another.         *)
(***************************************************************************)
\* The 256-bit value load_124 returns for position a, every slot computed.
Loaded124(a) ==
    LET v == load_124(packed, a)
        At(u) == v[u - 1]
        slots == SeqOf(At, 128)
    IN  [u \in 0..127 |-> slots[u + 1]]

C13_CmpPackLexicographic ==
    (entry = "new_packed" /\ phase = "sort" /\ pending = {}) =>
        LET Row(c) == LET At(u) == Loaded124((u - 1) + L * (c - 1))
                      IN  SeqOf(At, len_no_ctx + 1)
            window == SeqOf(Row, ctx)
        IN  \A c \in 1..ctx : \A a, b \in 0..len_no_ctx :
                cmp_pack(window[c][a + 1], window[c][b + 1])
                    = EncodedCmp(a + L * (c - 1), b + L * (c - 1), L)

\* Two windows that are equal, of different alignment and followed by
\* different bases, and two windows that differ in their last base only.
C13_Witness ==
    /\ entry = "new_packed"
    /\ phase = "sort"
    /\ pending = {}
    /\ \E a, b \in ValidStarts :
           /\ a # b
           /\ EncodedCmp(a, b, L) = "Equal"
           /\ CodeOf(bytes[a + L + 1]) # CodeOf(bytes[b + L + 1])
    /\ \E a, b \in 0..len_no_ctx :
           /\ EncodedCmp(a, b, L - 1) = "Equal"
           /\ EncodedCmp(a, b, L) = "Less"

(***************************************************************************)
(* C14.  In the scatter phase of new_packed, under every interleaving of   *)
(* the workers, no slot of `sorted` is written twice, every write is made  *)
(* by the worker whose chunk holds the written position, and when the      *)
(* phase is over every slot has been written exactly once.  The counts of  *)
(* worker t are worker t's alone: counts[t][v] is the start the prefix sum *)
(* gave it plus the number of positions of k-mer v that worker t itself    *)
(* has scattered, wherever the other workers are.                          *)
(***************************************************************************)
C14_ScatterWritesExclusive ==
    (entry = "new_packed" /\ phase \in {"scatter", "sort", "done"}) =>
        LET km == KmerSeq(len_no_ctx)
        IN  /\ \A u \in DOMAIN writes :
                   /\ Len(writes[u]) <= 1
                   /\ phase # "scatter" => Len(writes[u]) = 1
                   /\ \A j \in DOMAIN writes[u] :
                          /\ OwnerOf(writes[u][j][2], bucket_threads) = writes[u][j][1]
                          /\ phase = "scatter" => sorted[u] = writes[u][j][2]
            /\ \A t \in Threads : \A v \in DOMAIN thread_counts[t] :
                   thread_counts[t][v] =
                       Cardinality({q \in ValidStarts :
                           \/ km[q + 1] < v
                           \/ km[q + 1] = v /\ OwnerOf(q, bucket_threads) < t
                           \/ km[q + 1] = v /\ OwnerOf(q, bucket_threads) = t /\ q < pos[t]})

\* Two workers have finished a scatter in which each wrote into the bucket of
\* one k-mer, and one of them wrote twice into it.
C14_Witness ==
    /\ entry = "new_packed"
    /\ phase = "sort"
    /\ bucket_threads = 2
    /\ \E u, w, x \in DOMAIN writes :
           /\ u # w
           /\ w # x
           /\ u # x
           /\ writes[u][1][1] = 0
           /\ writes[w][1][1] = 1
           /\ writes[x][1][1] = 1
           /\ KmerOf(writes[u][1][2]) = KmerOf(writes[w][1][2])
           /\ KmerOf(writes[w][1][2]) = KmerOf(writes[x][1][2])

(***************************************************************************)
(* C15.  After the scatter phase of new_packed (the input as long as its   *)
(* pad, k in 1..16), counts[T-1][v] is the exclusive end of bucket v: the  *)
(* ranges [counts[T-1][v-1], counts[T-1][v]) (start 0 for v = 0) follow    *)
(* one another in increasing v, end at N - 124 * CTX, and range v holds    *)
(* exactly the positions whose k-mer (the first k encoded bases) is v; the *)
(* returned array is ordered by k-mer.                                     *)
(***************************************************************************)
\* The k-mer of position p: its first k encoded bases, first base highest.
TrueKmer(p) == KmerIndex(ExpectedKmer(p, k), k)

C15_BucketsByKmer ==
    (/\ entry = "new_packed"
     /\ phase \in {"sort", "done"}
     /\ Len(bytes) >= L * ctx
     /\ k >= 1
     /\ k <= 16) =>
        LET Known == {v \in BucketRange : v = 0 \/ v - 1 \in BucketRange}
            Range(v) == (BucketStart(v) + 1)..BucketEnd(v)
        IN  /\ \A v \in Known : BucketStart(v) <= BucketEnd(v)
            /\ \A v \in BucketRange : BucketEnd(v) <= len_no_ctx
            /\ BucketEnd(SetMax(BucketRange)) = len_no_ctx
            /\ \A v \in Known :
                   {sorted[u] : u \in Range(v)} = {p \in ValidStarts : TrueKmer(p) = v}
            /\ \A u, w \in DOMAIN sorted :
                   u < w => TrueKmer(sorted[u]) <= TrueKmer(sorted[w])

(***************************************************************************)
(* C16.  The phases of new_packed are separated by barriers.  While a      *)
(* histogram worker still has a position to count, no step rewrites the    *)
(* counts into prefix sums, allocates `sorted` or starts the scatter;      *)
(* the scatter starts in the very step that ends the prefix sum; while a   *)
(* scatter worker still has a position to place, no bucket task is         *)
(* scheduled and no bucket is sorted; and the first bucket task starts     *)
(* with every slot of `sorted` written.                                    *)
(***************************************************************************)
WorkerRunning == \E t \in DOMAIN pos : IndexBefore(pos[t], ChunkEnd(t))

C16_PhaseBarriers ==
    [][entry = "new_packed" =>
          /\ (phase = "histogram" /\ WorkerRunning) =>
                 /\ phase' \in {"histogram", "panicked", "undefined"}
                 /\ sorted' = sorted
                 /\ \A t \in Threads : \A v \in DOMAIN thread_counts[t] :
                        thread_counts'[t][v] \in
                            {thread_counts[t][v], thread_counts[t][v] + 1}
          /\ (phase = "histogram" /\ phase' = "scatter") =>
                 /\ thread_counts' = PrefixSum(thread_counts)
                 /\ \A t \in Threads : pos'[t] = ChunkStart(t)
          /\ (phase = "scatter" /\ WorkerRunning) =>
                 /\ phase' \in {"scatter", "undefined"}
                 /\ pending' = pending
          /\ (phase = "scatter" /\ phase' = "sort") =>
                 \A u \in DOMAIN writes : Len(writes[u]) = 1
          /\ phase = "sort" => (thread_counts' = thread_counts /\ writes' = writes)
      ]_vars

\* Two workers have finished their scatter, one after the other, and the
\* bucket tasks have been scheduled.
C16_Witness ==
    /\ entry = "new_packed"
    /\ phase = "sort"
    /\ bucket_threads = 2
    /\ len_no_ctx >= 2
    /\ pending # {}
    /\ \A t \in Threads : pos[t] = ChunkEnd(t)

(***************************************************************************)
(* C17.  With a trailing pad of 124 * CTX bytes (and k in 1..16), every    *)
(* read made during new_packed is in bounds: the call never reads outside  *)
(* a table or a buffer, and, once the text is packed, the buffer has       *)
(* ceil((N + 4) / 4) bytes; for every valid suffix start p and every       *)
(* window c < CTX, load_124(p + 124 * c) reads the 32 bytes                *)
(* data[i .. i + 32) inside it, and load_k(p, k) reads the four bytes      *)
(* data[i .. i + 4) inside it; the reversed offsets len - idx - 128 and    *)
(* len - idx - 16 are never below zero.                                    *)
(***************************************************************************)
C17_ReadsInBounds ==
    (/\ entry = "new_packed"
     /\ Len(bytes) >= L * ctx
     /\ k >= 1
     /\ k <= 16) =>
        /\ phase # "undefined"
        /\ phase \notin {"entry", "panicked", "undefined"} =>
               /\ Len(packed.data) = (Len(bytes) + 4 + 3) \div 4
               /\ \A p \in ValidStarts :
                      /\ LoadKOffset(packed, p) >= 0
                      /\ LoadKInBounds(packed, p)
                      /\ \A c \in 0..(ctx - 1) :
                             /\ Load124Offset(packed, p + L * c) >= 0
                             /\ Load124First(packed, p + L * c) >= 0
                             /\ Load124First(packed, p + L * c) + 32 <= Len(packed.data)

(***************************************************************************)
(* C18.  simd_cmp_bytes orders two positions by the LUT codes of their     *)
(* bytes, not by the raw bytes: over the 32 * CTX bytes it reads, its      *)
(* answer is the lexicographic comparison of the encoded bytes, so bytes   *)
(* of one code ('a' and 'A') compare as equal.  Read for the inputs that   *)
(* new_bytes has sorted with it.                                           *)
(***************************************************************************)
C18_BytesComparedByCode ==
    bytes_done = "returned" =>
        \A p, q \in ValidStarts :
            simd_cmp_bytes(bytes, p, q, ctx) = EncodedCmp(p, q, LBytes * ctx)

(***************************************************************************)
(* C19.  In new<CTX>(S, k) the counting-sort scatter fills each seed       *)
(* bucket from its lowest slot up: the r-th position of seed value s (in   *)
(* increasing position, r from 0) is written to slot seed_to_idx[s] + r,   *)
(* and the count of s is what is left to place; before the per-bucket      *)
(* sort each bucket holds its positions in ascending order.                *)
(***************************************************************************)
\* The number of positions before j that have the seed of position j.
RankInSeed(j) == Cardinality({h \in 0..(j - 1) : seeds[h + 1] = seeds[j + 1]})

C19_AscendingFill ==
    (entry = "new" /\ phase = "seed_scatter") =>
        /\ \A j \in 0..(pos[0] - 1) :
               sorted[(seed_to_idx[seeds[j + 1]] + RankInSeed(j)) + 1] = j
        /\ \A s \in DOMAIN counts :
               counts[s] = Cardinality({h \in pos[0]..(seeds_no_ctx_len - 1) :
                                          seeds[h + 1] = s})
        /\ pos[0] = seeds_no_ctx_len =>
               \A s \in DOMAIN counts : \A u, w \in (seed_to_idx[s] + 1)..seed_to_idx[s + 1] :
                   u < w => sorted[u] < sorted[w]

(***************************************************************************)
(* C19 as stated: the scatter fills each seed bucket from its highest slot *)
(* down, the r-th position of seed value s going to slot                   *)
(* seed_to_idx[s + 1] - 1 - r, so that before the per-bucket sort each     *)
(* bucket holds its positions in descending order.                         *)
(***************************************************************************)
C19_DescendingFill ==
    (entry = "new" /\ phase = "seed_scatter") =>
        /\ \A j \in 0..(pos[0] - 1) :
               sorted[(seed_to_idx[seeds[j + 1] + 1] - 1 - RankInSeed(j)) + 1] = j
        /\ pos[0] = seeds_no_ctx_len =>
               \A s \in DOMAIN counts : \A u, w \in (seed_to_idx[s] + 1)..seed_to_idx[s + 1] :
                   u < w => sorted[u] > sorted[w]

\* The scatter is over and a bucket holds at least two positions.
C19_Witness ==
    /\ entry = "new"
    /\ phase = "seed_scatter"
    /\ pos[0] = seeds_no_ctx_len
    /\ \E s \in DOMAIN counts : seed_to_idx[s + 1] - seed_to_idx[s] >= 2

(***************************************************************************)
(* C20.  When every scatter worker of new_packed has finished and no       *)
(* bucket has been sorted, every bucket lists its positions in strictly    *)
(* ascending order, for every T and every interleaving of the workers,     *)
(* and `sorted` is what a single worker would have scattered: inside a     *)
(* bucket the positions of thread t come before those of thread t + 1.     *)
(***************************************************************************)
ScatterFinished ==
    /\ entry = "new_packed"
    /\ phase = "scatter"
    /\ \A t \in Threads : pos[t] = ChunkEnd(t)

C20_BucketsAscendingBeforeSort ==
    ScatterFinished =>
        /\ \A v \in BucketRange :
               (v = 0 \/ v - 1 \in BucketRange) =>
                   \A u, w \in (BucketStart(v) + 1)..BucketEnd(v) :
                       u < w => sorted[u] < sorted[w]
        /\ sorted = Scattered(1)

\* Two workers have scattered into one bucket, the second of them twice.
C20_Witness ==
    /\ ScatterFinished
    /\ bucket_threads = 2
    /\ \E v \in BucketRange :
           /\ v = 0 \/ v - 1 \in BucketRange
           /\ BucketEnd(v) - BucketStart(v) >= 3
           /\ \E u, w \in (BucketStart(v) + 1)..BucketEnd(v) :
                  /\ OwnerOf(sorted[u], 2) = 0
                  /\ OwnerOf(sorted[w], 2) = 1

====
